---- MODULE Spec2Model ----
(***************************************************************************)
(* AgentSphere AI: the bounded state store (BusinessEnvironment), the      *)
(* consensus resolver (NegotiationEngine) and the round loop (Simulator).  *)
(*                                                                         *)
(* Numbers.  A Python float is modelled as a normalised rational <<n, d>>  *)
(* (d > 0, gcd(n, d) = 1).  Every arithmetic result passes through F: with *)
(* bits = 0 the arithmetic is exact; with bits = p > 0 each result is      *)
(* rounded to p significant bits, round-half-even, unbounded exponent (a   *)
(* binary floating-point format narrower than binary64).  round(x, k) is   *)
(* RoundDec: half-even rounding to k decimal places.                       *)
(***************************************************************************)
EXTENDS Integers, Sequences, FiniteSets, TLC

VARIABLES
    bits,           \* 0: exact arithmetic; p > 0: p-bit floating point
    agent_weights,  \* NegotiationEngine.agent_weights of the engine called directly
    batch,          \* the proposals collected for that engine
    consensus,      \* <<>> or <<the ConsensusResult it returned>>
    store,          \* a BusinessEnvironment used directly
    call,           \* the last call made on it, with its arguments and result
    sims,           \* the Simulator objects: env, rng, agents
    frame,          \* <<>> or <<the locals of the run() call in progress>>
    results         \* per Simulator, how each run() call made so far ended

vars == <<bits, agent_weights, batch, consensus, store, call,
          sims, frame, results>>

engineVars == <<agent_weights, batch, consensus>>
storeVars == <<store, call>>
simVars == <<sims, frame, results>>

\* ------------------------------------------------------------- bounds
MantissaBits == 8
MaxBatch == 3

\* ----------------------------------------------------------- rationals
Abs(n) == IF n < 0 THEN -n ELSE n

RECURSIVE Gcd(_, _)
Gcd(a, b) == IF b = 0 THEN a ELSE Gcd(b, a % b)

Rat(n, d) ==
    LET Reduced(g) == IF d < 0 THEN <<(-n) \div g, (-d) \div g>>
                      ELSE <<n \div g, d \div g>>
    IN  Reduced(Gcd(Abs(n), Abs(d)))

Zero == <<0, 1>>
One == <<1, 1>>

RNeg(a) == <<-a[1], a[2]>>
RAdd(a, b) ==
    LET Over(g) == Rat(a[1] * (b[2] \div g) + b[1] * (a[2] \div g),
                       (a[2] \div g) * b[2])
    IN  Over(Gcd(a[2], b[2]))
\* Products cancel crosswise first, so that a value as large as 1e9 can be
\* multiplied by a small fraction within the 32-bit range.
RMul(a, b) ==
    LET Cross(x, y) == Rat(x[1] * y[1], x[2] * y[2])
    IN  Cross(Rat(a[1], b[2]), Rat(b[1], a[2]))
RDiv(a, b) == RMul(a, Rat(b[2], b[1]))

\* a < b, by integer parts first so that bounds as large as 1e9 compare
\* without leaving the 32-bit range.
RLt(a, b) ==
    LET Compare(fa, fb) ==
            IF fa # fb THEN fa < fb
            ELSE (a[1] % a[2]) * b[2] < (b[1] % b[2]) * a[2]
    IN  Compare(a[1] \div a[2], b[1] \div b[2])
RLe(a, b) == ~RLt(b, a)
RSign(a) == IF a[1] > 0 THEN 1 ELSE IF a[1] < 0 THEN -1 ELSE 0

\* Python's max(x, y) and min(x, y): the first argument unless the second
\* is strictly larger (smaller).
PyMax(x, y) == IF RLt(x, y) THEN y ELSE x
PyMin(x, y) == IF RLt(y, x) THEN y ELSE x

RECURSIVE Pow(_, _)
Pow(b, k) == IF k = 0 THEN 1 ELSE b * Pow(b, k - 1)

\* ------------------------------------------------- floating-point rounding
\* The least den * 2^k with num \div (den * 2^k) < hi.
RECURSIVE ScaleDown(_, _, _)
ScaleDown(num, den, hi) ==
    IF num \div den >= hi THEN ScaleDown(num, 2 * den, hi) ELSE den

\* Long division of (m + r / den) * 2^e, one binary digit at a time, until
\* the quotient m has reached lo: <<m, r, e>>.
RECURSIVE ScaleUp(_, _, _, _, _)
ScaleUp(m, r, den, e, lo) ==
    IF m >= lo THEN <<m, r, e>>
    ELSE ScaleUp(2 * m + (IF r >= den - r THEN 1 ELSE 0),
                 IF r >= den - r THEN r - (den - r) ELSE 2 * r,
                 den, e + 1, lo)

\* m, or m + 1 when the remainder r of a division by den is more than a
\* half, or is a half and m is odd.
HalfEven(m, r, den) ==
    IF r > den - r \/ (r = den - r /\ m % 2 = 1) THEN m + 1 ELSE m

\* The nearest p-bit binary floating-point number to q, ties to even.
RoundBits(q, p) ==
    IF q[1] = 0 THEN Zero
    ELSE LET Large(a, s, den) ==
                 Rat(s * HalfEven(a \div den, a % den, den) * (den \div q[2]), 1)
             Small(s, sc) == Rat(s * HalfEven(sc[1], sc[2], q[2]), Pow(2, sc[3]))
             Round(a, s, lo) ==
                 IF a \div q[2] >= lo
                 THEN Large(a, s, ScaleDown(a, q[2], 2 * lo))
                 ELSE Small(s, ScaleUp(a \div q[2], a % q[2], q[2], 0, lo))
         IN  Round(Abs(q[1]), IF q[1] < 0 THEN -1 ELSE 1, Pow(2, p - 1))

\* A float result (and a float literal) in the arithmetic of this run.
F(q) == IF bits = 0 THEN q ELSE RoundBits(q, bits)

FAdd(a, b) == F(RAdd(a, b))
FMul(a, b) == F(RMul(a, b))
FDiv(a, b) == F(RDiv(a, b))

\* The float sum of a sequence of floats, left to right from 0 (sum()).
RECURSIVE FSumTo(_, _)
FSumTo(xs, n) == IF n = 0 THEN Zero ELSE FAdd(FSumTo(xs, n - 1), xs[n])
FSum(xs) == FSumTo(xs, Len(xs))

\* Long division of m + r / den by decimal digits, k digits further.
RECURSIVE DecimalDigits(_, _, _, _)
DecimalDigits(m, r, den, k) ==
    IF k = 0 THEN <<m, r>>
    ELSE DecimalDigits(10 * m + (10 * r) \div den, (10 * r) % den, den, k - 1)

\* round(q, k): half-even to k decimal places.  The result is kept as the
\* decimal it denotes; the arithmetic that uses it rounds its own results.
RoundDec(q, k) ==
    LET Rounded(dd) == Rat(HalfEven(dd[1], dd[2], q[2]), Pow(10, k))
    IN  Rounded(DecimalDigits(q[1] \div q[2], q[1] % q[2], q[2], k))

\* ------------------------------------------------------------ config.py
Lit(n, d) == F(Rat(n, d))

AGENT_WEIGHTS ==
    ("RevenueAgent" :> Lit(30, 100)) @@ ("RiskAgent" :> Lit(25, 100)) @@
    ("CostAgent" :> Lit(25, 100)) @@ ("GrowthAgent" :> Lit(20, 100))

CONFLICT_THRESHOLD == Lit(1, 2)

\* --------------------------------------------------------- engine.py
\* A ConflictReport for the pair (a, b).  conflicting_keys is the list the
\* code builds by iterating the set `shared`; its order is the interpreter's
\* iteration order of that set, so it is kept as the set of its elements.
SharedKeys(a, b) == DOMAIN a.deltas \cap DOMAIN b.deltas

\* A sign test that sees only a first delta falling against a second rising.
FirstFallsSecondRises(x, y) == RSign(x) < 0 /\ RSign(y) > 0

\* A sign test that also counts a zero delta as opposed.
OppositeSignsOrZero(x, y) == RSign(FMul(x, y)) <= 0

\* a.deltas[k] * b.deltas[k] < 0
OppositeSigns(x, y) == RSign(FMul(x, y)) < 0

ConflictingKeys(a, b) ==
    {k \in SharedKeys(a, b) : OppositeSigns(a.deltas[k], b.deltas[k])}

Severity(a, b) ==
    FDiv(<<Cardinality(ConflictingKeys(a, b)), 1>>,
         <<Cardinality(SharedKeys(a, b)), 1>>)

PairFlagged(a, b) ==
    /\ SharedKeys(a, b) # {}
    /\ RLe(CONFLICT_THRESHOLD, Severity(a, b))

RecordedSeverity(a, b) == RoundDec(Severity(a, b), 4)

PairReport(a, b) ==
    [agent_a |-> a.agent_name, agent_b |-> b.agent_name,
     conflicting_keys |-> ConflictingKeys(a, b),
     severity |-> RecordedSeverity(a, b)]

\* for i in range(n): for j in range(i + 1, n): ...
RECURSIVE DetectFrom(_, _, _)
DetectFrom(ps, i, j) ==
    IF i > Len(ps) THEN <<>>
    ELSE IF j > Len(ps) THEN DetectFrom(ps, i + 1, i + 2)
    ELSE (IF PairFlagged(ps[i], ps[j])
          THEN <<PairReport(ps[i], ps[j])>> ELSE <<>>)
         \o DetectFrom(ps, i, j + 1)

detect_conflicts(ps) == DetectFrom(ps, 1, 2)

ConflictAgents(conflicts) ==
    {conflicts[i].agent_a : i \in DOMAIN conflicts}
        \cup {conflicts[i].agent_b : i \in DOMAIN conflicts}

\* self.agent_weights.get(name, 1.0)
BaseWeight(w, name) == IF name \in DOMAIN w THEN w[name] ELSE One

CONFLICT_PENALTY == Lit(80, 100)

Penalty(name, conflict_agents) ==
    IF name \in conflict_agents THEN CONFLICT_PENALTY ELSE One

\* base * proposal.confidence * penalty
ProposalWeight(w, p, conflict_agents) ==
    FMul(FMul(BaseWeight(w, p.agent_name), p.confidence),
         Penalty(p.agent_name, conflict_agents))

BatchNames(ps) == {ps[i].agent_name : i \in DOMAIN ps}

\* The dict effective_weights is keyed by agent name: an entry is
\* overwritten by each later proposal of the same name.
WeightEntry(ps, name) ==
    CHOOSE i \in DOMAIN ps :
        /\ ps[i].agent_name = name
        /\ \A j \in DOMAIN ps : ps[j].agent_name = name => j <= i

EffectiveWeights(w, ps, conflict_agents) ==
    [name \in BatchNames(ps) |->
        ProposalWeight(w, ps[WeightEntry(ps, name)], conflict_agents)]

\* The dict keeps its keys in insertion order: the first proposal of each name.
FirstOfName(ps, i) == \A j \in 1..(i - 1) : ps[j].agent_name # ps[i].agent_name

RECURSIVE NameOrderTo(_, _)
NameOrderTo(ps, n) ==
    IF n = 0 THEN <<>>
    ELSE NameOrderTo(ps, n - 1)
         \o (IF FirstOfName(ps, n) THEN <<ps[n].agent_name>> ELSE <<>>)
NameOrder(ps) == NameOrderTo(ps, Len(ps))

\* sum(effective_weights.values()), with 1.0 in place of 0
TotalWeight(ew, ps) ==
    LET Sum(order) == FSum([i \in 1..Len(order) |-> ew[order[i]]])
        OrOne(t) == IF t = Zero THEN One ELSE t
    IN  OrOne(Sum(NameOrder(ps)))

AllKeys(ps) == UNION {DOMAIN ps[i].deltas : i \in DOMAIN ps}

HasKey(p, key) == key \in DOMAIN p.deltas

RECURSIVE ProposersTo(_, _, _)
ProposersTo(ps, key, n) ==
    IF n = 0 THEN <<>>
    ELSE ProposersTo(ps, key, n - 1)
         \o (IF HasKey(ps[n], key) THEN <<ps[n]>> ELSE <<>>)
Proposers(ps, key) == ProposersTo(ps, key, Len(ps))

WeightedSum(ps, key, ew) ==
    LET Over(pp) ==
            FSum([i \in 1..Len(pp) |-> FMul(pp[i].deltas[key], ew[pp[i].agent_name])])
    IN  Over(Proposers(ps, key))

KeyWeightSum(ps, key, ew) ==
    LET Over(pp) == FSum([i \in 1..Len(pp) |-> ew[pp[i].agent_name]])
    IN  Over(Proposers(ps, key))

\* A merge that drops a field whose weight is positive but under a tenth.
KeyMergedAboveTenth(ps, key, ew) == RLt(Lit(1, 10), KeyWeightSum(ps, key, ew))

\* if weight_sum > 0
KeyMerged(ps, key, ew) == RLt(Zero, KeyWeightSum(ps, key, ew))

FinalDeltas(ps, ew) ==
    [key \in {k \in AllKeys(ps) : KeyMerged(ps, k, ew)} |->
        FDiv(WeightedSum(ps, key, ew), KeyWeightSum(ps, key, ew))]

ConfidenceIndex(ps, ew) ==
    FDiv(FSum([i \in 1..Len(ps) |-> FMul(ew[ps[i].agent_name], ps[i].confidence)]),
         TotalWeight(ew, ps))

AgentVotes(ps, ew) ==
    [name \in BatchNames(ps) |-> RoundDec(FDiv(ew[name], TotalWeight(ew, ps)), 4)]

\* max(proposals, key=lambda p: p.confidence): the first of the largest.
TopProposal(ps) ==
    ps[CHOOSE i \in DOMAIN ps :
          /\ \A j \in DOMAIN ps : RLe(ps[j].confidence, ps[i].confidence)
          /\ \A j \in 1..(i - 1) : RLt(ps[j].confidence, ps[i].confidence)]

\* The summary's lines, as the values they format.
build_summary(ps, conflicts, confidence_index) ==
    LET Lines(top) ==
            [confidence |-> RoundDec(confidence_index, 3),
             agents |-> Len(ps),
             conflicts |-> [i \in DOMAIN conflicts |->
                              [agent_a |-> conflicts[i].agent_a,
                               agent_b |-> conflicts[i].agent_b,
                               conflicting_keys |-> conflicts[i].conflicting_keys,
                               severity |-> RoundDec(conflicts[i].severity, 2)]],
             top |-> [agent_name |-> top.agent_name,
                      confidence |-> RoundDec(top.confidence, 3),
                      action |-> top.action]]
    IN  Lines(TopProposal(ps))

\* An outcome for the empty batch that claims full confidence.
NoProposalsConfident ==
    [final_deltas |-> <<>>, conflicts |-> <<>>, confidence_index |-> One,
     agent_votes |-> <<>>, summary |-> "No proposals received.",
     proposals |-> <<>>]

\* ConsensusResult(...) for `not proposals`
NoProposals ==
    [final_deltas |-> <<>>, conflicts |-> <<>>, confidence_index |-> Zero,
     agent_votes |-> <<>>, summary |-> "No proposals received.",
     proposals |-> <<>>]

negotiate(w, ps) ==
    IF ps = <<>> THEN NoProposals
    ELSE LET ConsensusResult(conflicts, ew, ci) ==
                 [final_deltas |-> FinalDeltas(ps, ew),
                  conflicts |-> conflicts,
                  confidence_index |-> RoundDec(ci, 4),
                  agent_votes |-> AgentVotes(ps, ew),
                  summary |-> build_summary(ps, conflicts, ci),
                  proposals |-> ps]
             Merged(conflicts, ew) ==
                 ConsensusResult(conflicts, ew, ConfidenceIndex(ps, ew))
             Resolved(conflicts) ==
                 Merged(conflicts,
                        EffectiveWeights(w, ps, ConflictAgents(conflicts)))
         IN  Resolved(detect_conflicts(ps))

\* ------------------------------------------------------ business_env.py
Fields ==
    {"revenue", "cost", "risk_score", "churn", "marketing_budget",
     "growth_rate", "volatility"}

ENV_DEFAULTS ==
    ("revenue" :> Lit(1000000, 1)) @@ ("cost" :> Lit(600000, 1)) @@
    ("risk_score" :> Lit(35, 100)) @@ ("churn" :> Lit(8, 100)) @@
    ("marketing_budget" :> Lit(80000, 1)) @@ ("growth_rate" :> Lit(5, 100)) @@
    ("volatility" :> Lit(15, 100))

\* The metrics that BusinessEnvironment._BOUNDS has an entry for.
BOUNDED == Fields

\* BusinessEnvironment._BOUNDS[key], as <<lo, hi>>
BOUNDS(key) ==
    CASE key = "revenue" -> <<Lit(1, 1), Lit(1000000000, 1)>>
      [] key = "cost" -> <<Lit(1, 1), Lit(1000000000, 1)>>
      [] key = "risk_score" -> <<Zero, Lit(1, 1)>>
      [] key = "churn" -> <<Zero, Lit(1, 1)>>
      [] key = "marketing_budget" -> <<Zero, Lit(100000000, 1)>>
      [] key = "growth_rate" -> <<RNeg(Lit(1, 2)), Lit(2, 1)>>
      [] key = "volatility" -> <<Zero, Lit(1, 1)>>

\* self._BOUNDS.get(key, (-1e12, 1e12)); every field has an entry, and the
\* fallback, which no 32-bit integer holds, is never taken.
BoundsOf(key) ==
    IF key \in BOUNDED THEN BOUNDS(key)
    ELSE <<Rat(-Pow(10, 12), 1), Rat(Pow(10, 12), 1)>>

\* dict.update(other) when `other` is given and not empty.
Updated(base, other) == [k \in DOMAIN base \cup DOMAIN other |->
                            IF k \in DOMAIN other THEN other[k] ELSE base[k]]

\* EnvironmentState(**values): round_number defaults to 0.
EnvironmentState(values, round_number) ==
    [values |-> values, round_number |-> round_number]

\* BusinessEnvironment.__init__(initial_state)
EnvInit(initial_state) ==
    LET Built(defaults) == [initial |-> defaults,
                            state |-> EnvironmentState(defaults, 0),
                            round |-> 0,
                            history |-> <<>>]
    IN  Built(Updated(ENV_DEFAULTS, initial_state))

\* A lookup that gives a field without a key the delta of a tenth.
DeltaDefaultTenth(deltas, key) ==
    IF key \in DOMAIN deltas THEN deltas[key] ELSE Lit(1, 10)

\* deltas.get(key, 0.0)
DeltaOf(deltas, key) == IF key \in DOMAIN deltas THEN deltas[key] ELSE Zero

\* The sign rule that counts a zero delta as negative.
NoiseSignStrict(delta) == IF RLt(Zero, delta) THEN One ELSE RNeg(One)

\* (1 if delta >= 0 else -1)
NoiseSign(delta) == IF RLe(Zero, delta) THEN One ELSE RNeg(One)

\* value * (1.0 + delta + noise * sign)
RawValue(value, delta, noise) ==
    FMul(value, FAdd(FAdd(One, delta), FMul(noise, NoiseSign(delta))))

\* A clamp with the upper limit only.
ClampUpperOnly(lo, hi, raw) == PyMin(hi, raw)

\* A clamp with the lower limit only.
ClampLowerOnly(lo, hi, raw) == PyMax(lo, raw)

\* max(lo, min(hi, raw))
Clamp(lo, hi, raw) == PyMax(lo, PyMin(hi, raw))

NewValue(key, value, deltas, noise) ==
    LET Within(lo_hi) ==
            Clamp(lo_hi[1], lo_hi[2], RawValue(value, DeltaOf(deltas, key), noise))
    IN  Within(BoundsOf(key))

\* An apply that advances the round and the state but records no snapshot.
ApplyWithoutRecord(env, deltas, noise) ==
    LET Advanced(new_state) ==
            [env EXCEPT !.round = env.round + 1, !.state = new_state]
        new_values == [key \in DOMAIN env.state.values |->
                          NewValue(key, env.state.values[key], deltas, noise)]
    IN  Advanced(EnvironmentState(new_values, env.round + 1))

\* BusinessEnvironment.apply_deltas(deltas, noise): the environment after
\* the call; the call returns its state.
apply_deltas(env, deltas, noise) ==
    LET Advanced(new_state) ==
            [env EXCEPT !.round = env.round + 1,
                        !.state = new_state,
                        !.history = Append(env.history, new_state)]
        new_values == [key \in DOMAIN env.state.values |->
                          NewValue(key, env.state.values[key], deltas, noise)]
    IN  Advanced(EnvironmentState(new_values, env.round + 1))

\* A snapshot that reads the construction values, not the current ones.
SnapshotOfInitial(env) == EnvironmentState(env.initial, env.round)

\* BusinessEnvironment.snapshot()
snapshot(env) == EnvironmentState(env.state.values, env.round)

\* A reset that keeps its override as the new construction values.
ResetRemembering(env, initial_state) ==
    [env EXCEPT !.initial = Updated(env.initial, initial_state),
                !.state = EnvironmentState(Updated(env.initial, initial_state), 0),
                !.round = 0,
                !.history = <<>>]

\* BusinessEnvironment.reset(initial_state)
reset(env, initial_state) ==
    [env EXCEPT !.state = EnvironmentState(Updated(env.initial, initial_state), 0),
                !.round = 0,
                !.history = <<>>]

\* AgentProposal(agent_name, action, deltas, confidence, rationale)
Proposal(name, action, deltas, conf) ==
    [agent_name |-> name, action |-> action, deltas |-> deltas,
     confidence |-> conf]

\* ------------------------------------------------------------- agents/
\* A validation that lets a confidence of up to 2 through.
RejectedAboveTwo(confidence) ==
    ~(RLe(Zero, confidence) /\ RLe(confidence, Lit(2, 1)))

\* AgentProposal.__post_init__ raises ValueError unless 0 <= confidence <= 1.
Rejected(confidence) == ~(RLe(Zero, confidence) /\ RLe(confidence, One))

\* BaseAgent.__init__(name, weight): an evaluator with an empty history.
\* `kind` stands for the subclass, that is, for its propose method.
BaseAgent(name, kind, weight) ==
    [name |-> name, kind |-> kind, weight |-> weight, history |-> <<>>]

\* round(1 / (1 + exp(-6 (c - 0.5))), 4) at c = 0, 1/20, 2/20 .. 1, in
\* ten-thousandths.
LogisticTable ==
    <<474, 630, 832, 1091, 1419, 1824, 2315, 2891, 3543, 4256, 5000,
      5744, 6457, 7109, 7685, 8176, 8581, 8909, 9168, 9370, 9526>>

\* round(1.0 / (1.0 + math.exp(-6.0 * (c - 0.5))), 4) for 0 <= c <= 1: the
\* curve is taken from the table and is linear between two entries of it.
Logistic4(c) ==
    LET Between(k, x) ==
            Rat(HalfEven(LogisticTable[k + 1] + x \div c[2], x % c[2], c[2]), 10000)
        Rise(k) == LogisticTable[k + 2] - LogisticTable[k + 1]
        Cell(k) == Between(k, Rise(k) * (20 * c[1] - k * c[2]))
        Floor(cell) == IF cell < 0 THEN 0 ELSE IF cell > 19 THEN 19 ELSE cell
    IN  Cell(Floor((20 * c[1]) \div c[2]))

FSub(a, b) == FAdd(a, RNeg(b))

\* RevenueAgent
TARGET_GROWTH_RATE == Lit(8, 100)
HIGH_CHURN_THRESHOLD == Lit(10, 100)

RevenueAgent(weight) == BaseAgent("RevenueAgent", "RevenueAgent", weight)

\* RevenueAgent.evaluate(state): the metrics that propose reads.
RevenueEvaluate(state) ==
    [revenue_gap |-> FSub(TARGET_GROWTH_RATE, state.values["growth_rate"]),
     churn_severity |->
         PyMax(Zero, FSub(state.values["churn"], HIGH_CHURN_THRESHOLD))]

\* RevenueAgent.propose(state), from metrics = self.evaluate(state) on.
RevenueDecide(self, metrics) ==
    LET revenue_gap == metrics.revenue_gap
        churn_severity == metrics.churn_severity
        low == RLt(Zero, revenue_gap)
        high == RLt(Zero, churn_severity)
        growth == IF low
                  THEN ("marketing_budget" :>
                            PyMin(Lit(20, 100), FMul(revenue_gap, Lit(2, 1))))
                       @@ ("revenue" :> FMul(revenue_gap, Lit(80, 100)))
                       @@ ("growth_rate" :> FMul(revenue_gap, Lit(50, 100)))
                  ELSE <<>>
        Retention(deltas) ==
            ("churn" :> RNeg(PyMin(Lit(25, 100), FMul(churn_severity, Lit(3, 1)))))
            @@ ("cost" :> FAdd(DeltaOf(deltas, "cost"), Lit(2, 100)))
            @@ ("revenue" :> FAdd(DeltaOf(deltas, "revenue"),
                                  FMul(churn_severity, Lit(15, 10))))
        Deltas(deltas) ==
            IF high THEN Updated(deltas, Retention(deltas))
            ELSE IF low THEN deltas
            ELSE ("revenue" :> Lit(2, 100)) @@ ("growth_rate" :> Lit(5, 1000))
        confidence_factors ==
            (IF low THEN <<PyMin(One, FDiv(revenue_gap, TARGET_GROWTH_RATE))>>
             ELSE <<>>)
            \o (IF high
                THEN <<PyMin(One, FDiv(churn_severity, HIGH_CHURN_THRESHOLD))>>
                ELSE <<>>)
            \o (IF ~low /\ ~high THEN <<Lit(70, 100)>> ELSE <<>>)
        Confidence(factors) == FDiv(FSum(factors), Rat(Len(factors), 1))
        action == IF low /\ high THEN "Boost marketing & reduce churn"
                  ELSE IF low THEN "Growth rate is below target"
                  ELSE IF high THEN "Churn exceeds threshold"
                  ELSE "Revenue metrics healthy"
    IN  Proposal(self.name, action, Deltas(growth),
                 Logistic4(Confidence(confidence_factors)))

RevenuePropose(self, state) == RevenueDecide(self, RevenueEvaluate(state))

\* RiskAgent
CRITICAL_RISK == Lit(65, 100)
HIGH_RISK == Lit(45, 100)
SAFE_RISK == Lit(25, 100)
HIGH_VOLATILITY == Lit(30, 100)

RiskAgent(weight) == BaseAgent("RiskAgent", "RiskAgent", weight)

\* RiskAgent.evaluate(state): the metrics that propose reads.
RiskEvaluate(state) ==
    [risk_excess |-> PyMax(Zero, FSub(state.values["risk_score"], SAFE_RISK)),
     volatility_excess |->
         PyMax(Zero, FSub(state.values["volatility"], HIGH_VOLATILITY))]

\* RiskAgent.propose(state), from metrics = self.evaluate(state) on.
RiskDecide(self, risk_score, metrics) ==
    LET risk_excess == metrics.risk_excess
        volatility_excess == metrics.volatility_excess
        critical == RLe(CRITICAL_RISK, risk_score)
        elevated == ~critical /\ RLe(HIGH_RISK, risk_score)
        safe == ~critical /\ ~elevated /\ RLe(risk_score, SAFE_RISK)
        base == IF critical
                THEN ("risk_score" :> RNeg(FMul(risk_excess, Lit(40, 100))))
                     @@ ("cost" :> Lit(5, 100))
                     @@ ("revenue" :> RNeg(Lit(2, 100)))
                     @@ ("volatility" :> RNeg(Lit(5, 100)))
                     @@ ("growth_rate" :> RNeg(Lit(2, 100)))
                ELSE IF elevated
                THEN ("risk_score" :> RNeg(FMul(risk_excess, Lit(25, 100))))
                     @@ ("cost" :> Lit(2, 100))
                     @@ ("volatility" :> RNeg(Lit(3, 100)))
                ELSE IF safe
                THEN ("risk_score" :> Lit(2, 100))
                     @@ ("growth_rate" :> Lit(1, 100))
                     @@ ("revenue" :> Lit(3, 100))
                ELSE ("risk_score" :> RNeg(Lit(2, 100))) @@ ("cost" :> Lit(1, 100))
        base_raw == IF critical THEN Lit(90, 100)
                    ELSE IF elevated THEN Lit(78, 100)
                    ELSE IF safe THEN Lit(72, 100)
                    ELSE Lit(65, 100)
        volatile == RLt(Zero, volatility_excess)
        vol_reduction == PyMin(Lit(10, 100), FMul(volatility_excess, Lit(50, 100)))
        Dampening(deltas) ==
            ("volatility" :> FSub(DeltaOf(deltas, "volatility"), vol_reduction))
            @@ ("growth_rate" :>
                   FSub(DeltaOf(deltas, "growth_rate"),
                        FMul(volatility_excess, Lit(15, 100))))
        Deltas(deltas) ==
            IF volatile THEN Updated(deltas, Dampening(deltas)) ELSE deltas
        confidence_raw == IF volatile
                          THEN PyMin(One, FAdd(base_raw, Lit(5, 100)))
                          ELSE base_raw
        action == IF critical THEN "CRITICAL risk"
                  ELSE IF elevated THEN "Elevated risk"
                  ELSE IF safe THEN "Risk at safe level"
                  ELSE "Moderate risk"
    IN  Proposal(self.name, action, Deltas(base), Logistic4(confidence_raw))

RiskPropose(self, state) ==
    RiskDecide(self, state.values["risk_score"], RiskEvaluate(state))

\* CostAgent
TARGET_COST_RATIO == Lit(55, 100)
CRITICAL_COST_RATIO == Lit(80, 100)
MIN_COST_RATIO == Lit(40, 100)

CostAgent(weight) == BaseAgent("CostAgent", "CostAgent", weight)

\* CostAgent.evaluate(state): the metrics that propose reads.
CostEvaluate(state) ==
    LET Metrics(cost_ratio) ==
            [cost_ratio |-> cost_ratio,
             cost_gap |-> FSub(cost_ratio, TARGET_COST_RATIO)]
    IN  Metrics(IF RLt(Zero, state.values["revenue"])
                THEN FDiv(state.values["cost"], state.values["revenue"])
                ELSE One)

\* CostAgent.propose(state), from metrics = self.evaluate(state) on.
CostDecide(self, metrics) ==
    LET cost_ratio == metrics.cost_ratio
        cost_gap == metrics.cost_gap
        critical == RLe(CRITICAL_COST_RATIO, cost_ratio)
        above == ~critical /\ RLt(Zero, cost_gap)
        below == ~critical /\ ~above /\ RLt(cost_ratio, MIN_COST_RATIO)
        deltas == IF critical
                  THEN ("cost" :> RNeg(PyMin(Lit(15, 100), FMul(cost_gap, Lit(70, 100)))))
                       @@ ("marketing_budget" :> RNeg(Lit(5, 100)))
                       @@ ("risk_score" :> Lit(3, 100))
                  ELSE IF above
                  THEN ("cost" :> RNeg(PyMin(Lit(8, 100), FMul(cost_gap, Lit(50, 100)))))
                       @@ ("marketing_budget" :> RNeg(Lit(2, 100)))
                  ELSE IF below
                  THEN ("cost" :> Lit(3, 100))
                       @@ ("revenue" :> Lit(2, 100))
                       @@ ("risk_score" :> RNeg(Lit(2, 100)))
                  ELSE ("cost" :> RNeg(Lit(1, 100))) @@ ("revenue" :> Lit(1, 100))
        confidence_raw == IF critical THEN Lit(88, 100)
                          ELSE IF above THEN Lit(75, 100)
                          ELSE IF below THEN Lit(68, 100)
                          ELSE Lit(70, 100)
        action == IF critical THEN "Critical cost ratio"
                  ELSE IF above THEN "Cost ratio above target"
                  ELSE IF below THEN "Cost ratio below minimum"
                  ELSE "Cost ratio near target"
    IN  Proposal(self.name, action, deltas, Logistic4(confidence_raw))

CostPropose(self, state) == CostDecide(self, CostEvaluate(state))

\* GrowthAgent
AGGRESSIVE_GROWTH == Lit(12, 100)
CONSERVATIVE_GROWTH == Lit(4, 100)
RISK_TOLERANCE == Lit(40, 100)

GrowthAgent(weight) == BaseAgent("GrowthAgent", "GrowthAgent", weight)

\* GrowthAgent.evaluate(state): the metrics that propose reads.
GrowthEvaluate(state) ==
    LET Metrics(growth_potential, risk_factor) ==
            [growth_potential |-> growth_potential,
             market_saturation |->
                 PyMin(One, IF RLt(Zero, state.values["revenue"])
                            THEN FDiv(state.values["marketing_budget"],
                                      FMul(state.values["revenue"], Lit(15, 100)))
                            ELSE One),
             risk_adjusted_potential |-> FMul(growth_potential, risk_factor)]
    IN  Metrics(PyMax(Zero, FSub(AGGRESSIVE_GROWTH, state.values["growth_rate"])),
                PyMax(Zero, FSub(One, FDiv(state.values["risk_score"],
                                           RISK_TOLERANCE))))

\* GrowthAgent.propose(state), from metrics = self.evaluate(state) on.
GrowthDecide(self, v, metrics) ==
    LET market_saturation == metrics.market_saturation
        risk_adjusted_potential == metrics.risk_adjusted_potential
        risky == RLt(RISK_TOLERANCE, v["risk_score"])
        favourable == /\ ~risky
                      /\ RLt(Lit(4, 100), risk_adjusted_potential)
                      /\ RLt(market_saturation, Lit(70, 100))
        stagnant == ~risky /\ ~favourable
                    /\ RLt(v["growth_rate"], CONSERVATIVE_GROWTH)
        deltas == IF risky
                  THEN ("growth_rate" :> RNeg(Lit(1, 100)))
                       @@ ("marketing_budget" :> RNeg(Lit(5, 100)))
                       @@ ("revenue" :> RNeg(Lit(1, 100)))
                  ELSE IF favourable
                  THEN ("growth_rate" :> FMul(risk_adjusted_potential, Lit(80, 100)))
                       @@ ("marketing_budget" :>
                              PyMin(Lit(20, 100),
                                    FMul(risk_adjusted_potential, Lit(15, 10))))
                       @@ ("revenue" :> FMul(risk_adjusted_potential, Lit(12, 10)))
                       @@ ("churn" :> RNeg(Lit(1, 100)))
                  ELSE IF stagnant
                  THEN ("growth_rate" :> Lit(2, 100))
                       @@ ("marketing_budget" :> Lit(8, 100))
                       @@ ("revenue" :> Lit(3, 100))
                  ELSE ("growth_rate" :> Lit(5, 1000)) @@ ("revenue" :> Lit(15, 1000))
        confidence_raw == IF risky THEN Lit(80, 100)
                          ELSE IF favourable THEN Lit(85, 100)
                          ELSE IF stagnant THEN Lit(72, 100)
                          ELSE Lit(68, 100)
        action == IF risky THEN "Risk exceeds tolerance"
                  ELSE IF favourable THEN "Favourable conditions"
                  ELSE IF stagnant THEN "Stagnant growth"
                  ELSE "Growth on track"
    IN  Proposal(self.name, action, deltas, Logistic4(confidence_raw))

GrowthPropose(self, state) == GrowthDecide(self, state.values, GrowthEvaluate(state))

\* Evaluators written by the caller, as subclasses of BaseAgent.
\* A Contrarian pulls revenue down and tires: its confidence falls with the
\* number of proposals in its own history.
ContrarianPropose(self, state) ==
    LET n == Len(self.history)
        confidence == IF n >= 3 THEN Lit(60, 100) ELSE Rat(9 - n, 10)
    IN  Proposal(self.name, "Pull back",
                 ("revenue" :> RNeg(Lit(25, 100))) @@ ("volatility" :> Lit(50, 100)),
                 confidence)

\* An Idle evaluator proposes no change and claims no confidence.
IdlePropose(self, state) == Proposal(self.name, "Hold", <<>>, Zero)

\* A Reckless evaluator reports a confidence outside [0, 1] from its second
\* proposal on: below 0 when its weight is under 1, above 1 otherwise.
RecklessPropose(self, state) ==
    Proposal(self.name, "All in", ("growth_rate" :> Lit(50, 100)),
             IF Len(self.history) = 0 THEN One
             ELSE IF RLt(self.weight, One) THEN RNeg(Lit(1, 2))
             ELSE Lit(3, 2))

\* agent.propose(state), dispatched on the subclass.
Propose(self, state) ==
    CASE self.kind = "RevenueAgent" -> RevenuePropose(self, state)
      [] self.kind = "RiskAgent" -> RiskPropose(self, state)
      [] self.kind = "CostAgent" -> CostPropose(self, state)
      [] self.kind = "GrowthAgent" -> GrowthPropose(self, state)
      [] self.kind = "Contrarian" -> ContrarianPropose(self, state)
      [] self.kind = "Idle" -> IdlePropose(self, state)
      [] self.kind = "Reckless" -> RecklessPropose(self, state)

\* An act that asks the evaluator for a proposal twice.
ActTwice(self, state) ==
    LET Again(once) ==
            [once EXCEPT !.history = Append(once.history, Propose(once, state))]
    IN  Again([self EXCEPT !.history = Append(self.history, Propose(self, state))])

\* BaseAgent.act(state): the agent after the call; the call returns the
\* proposal appended, unless building it raised.
Act(self, state) ==
    [self EXCEPT !.history = Append(self.history, Propose(self, state))]

\* A reset that leaves the proposals of earlier runs in the history.
AgentKeepsHistory(self) == self

\* BaseAgent.reset()
AgentReset(self) == [self EXCEPT !.history = <<>>]

\* [agent.act(state) for agent in agents[:n]]: the agents after their calls,
\* made in list order.
RECURSIVE ActAll(_, _, _)
ActAll(agents, state, n) ==
    IF n = 0 THEN <<>>
    ELSE Append(ActAll(agents, state, n - 1), Act(agents[n], state))

\* ------------------------------------------------- simulation/simulator.py
\* random.Random(seed): the generator is the seed and the number of values
\* drawn from it so far.
Random(seed) == [seed |-> seed, draws |-> 0]

\* The n-th standard normal value of the generator seeded with `seed`: a
\* fixed, never zero, table of quarters standing for the Mersenne Twister.
StdNormal(seed, n) ==
    LET h == (((seed % 7) + 2) * (n + 1) + n * n) % 9
    IN  Rat(IF h >= 4 THEN h - 3 ELSE h - 4, 4)

\* rng.gauss(mu, sigma): the value returned.
gauss(rng, mu, sigma) == FAdd(mu, FMul(StdNormal(rng.seed, rng.draws), sigma))

\* rng.gauss(mu, sigma): the generator after the call.
Drawn(rng) == [rng EXCEPT !.draws = @ + 1]

\* Simulator._default_agents()
default_agents ==
    << RevenueAgent(AGENT_WEIGHTS["RevenueAgent"]),
       RiskAgent(AGENT_WEIGHTS["RiskAgent"]),
       CostAgent(AGENT_WEIGHTS["CostAgent"]),
       GrowthAgent(AGENT_WEIGHTS["GrowthAgent"]) >>

\* An argument left out, or passed as None, is <<>>; one passed is <<value>>.
None == <<>>
Some(value) == <<value>>

\* `agents or self._default_agents()`: None and the empty list are both falsy.
AgentsOrDefault(agents) ==
    IF agents = None \/ agents[1] = <<>> THEN default_agents ELSE agents[1]

\* `initial_state` as BusinessEnvironment takes it: None reads as no override.
OverridesOf(initial_state) ==
    IF initial_state = None THEN <<>> ELSE initial_state[1]

\* A constructor that seeds the generator from the object it builds.
SimulatorInitOwnSeed(self, initial_state, seed, agents) ==
    [env |-> EnvInit(OverridesOf(initial_state)),
     rng |-> Random(seed + self),
     agents |-> AgentsOrDefault(agents),
     engine |-> AGENT_WEIGHTS,
     args |-> [initial_state |-> initial_state, seed |-> seed, agents |-> agents]]

\* Simulator.__init__(initial_state, seed, agents); `args` remembers the
\* arguments of the call.
SimulatorInit(self, initial_state, seed, agents) ==
    [env |-> EnvInit(OverridesOf(initial_state)),
     rng |-> Random(seed),
     agents |-> AgentsOrDefault(agents),
     engine |-> AGENT_WEIGHTS,
     args |-> [initial_state |-> initial_state, seed |-> seed, agents |-> agents]]

\* A record that stores the noise with its sign reversed.
RoundResultNoiseReversed(round_number, proposals, result, state_before, state_after, noise) ==
    [round_number |-> round_number, proposals |-> proposals,
     consensus |-> result, state_before |-> state_before,
     state_after |-> state_after, noise |-> RNeg(noise)]

\* RoundResult(...)
RoundResult(round_number, proposals, result, state_before, state_after, noise) ==
    [round_number |-> round_number, proposals |-> proposals,
     consensus |-> result, state_before |-> state_before,
     state_after |-> state_after, noise |-> noise]

\* SimulationResult(...)
SimulationResult(rounds, initial_state, final_state, scenario_name) ==
    [rounds |-> rounds, initial_state |-> initial_state,
     final_state |-> final_state, scenario_name |-> scenario_name]

\* The locals of run() once the state is reset and before the first round.
RunFrame(self, n_rounds, stochastic, initial_state) ==
    [self |-> self, pc |-> "loop", n_rounds |-> n_rounds,
     stochastic |-> stochastic, scenario_name |-> "Default Scenario",
     initial_state |-> initial_state, rounds |-> <<>>, round_idx |-> 0,
     state_before |-> <<>>, proposals |-> <<>>, consensus |-> <<>>,
     noise |-> <<>>, state_after |-> <<>>]

\* A loop that stops once a round leaves the consensus empty.
LoopContinuesWhileMerging(f) ==
    /\ f.round_idx < f.n_rounds
    /\ IF f.rounds = <<>> THEN TRUE
       ELSE DOMAIN f.rounds[Len(f.rounds)].consensus.final_deltas # {}

\* A loop that tests its bound only after the first pass.
LoopRunsAtLeastOnce(f) == f.round_idx = 0 \/ f.round_idx < f.n_rounds

\* for round_idx in range(1, n_rounds + 1): there is another round to run.
LoopContinues(f) == f.round_idx < f.n_rounds

\* How a run() call ended: with a result, or with the ValueError of a
\* rejected proposal.
Outcome(f, raised, value) ==
    [n_rounds |-> f.n_rounds, stochastic |-> f.stochastic,
     raised |-> raised, value |-> value]

\* A list in which no proposal is ever found rejected.
NoneRejected(proposals) == 0

\* The first proposal of the list that AgentProposal rejects, or 0.
FirstRejected(proposals) ==
    LET First(bad) == IF bad = {} THEN 0 ELSE CHOOSE i \in bad : \A j \in bad : i <= j
    IN  First({i \in DOMAIN proposals : Rejected(proposals[i].confidence)})

\* ------------------------------------------- the resolver called directly
Tenth == Lit(1, 10)

ProposalPool ==
    { Proposal("RevenueAgent", "boost",
               ("revenue" :> Tenth) @@ ("cost" :> Tenth) @@ ("churn" :> RNeg(Tenth)),
               One),
      Proposal("CostAgent", "cut",
               ("revenue" :> RNeg(Tenth)) @@ ("cost" :> RNeg(Tenth))
                   @@ ("churn" :> RNeg(Tenth)),
               Lit(4, 5)),
      Proposal("CostAgent", "hold",
               ("revenue" :> Zero) @@ ("cost" :> Zero) @@ ("churn" :> Tenth),
               Lit(1, 2)),
      Proposal("RevenueAgent", "campaign", ("marketing_budget" :> Tenth), Zero),
      Proposal("RevenueAgent", "upsell", ("revenue" :> Tenth), Lit(1, 5)),
      Proposal("GrowthAgent", "expand",
               ("revenue" :> Tenth) @@ ("cost" :> Tenth) @@ ("churn" :> Tenth),
               One),
      Proposal("A", "up", ("x" :> Tenth), Lit(4, 5)),
      Proposal("B", "down", ("x" :> RNeg(Tenth)), Lit(4, 5)),
      Proposal("B", "idle", <<>>, One) }

WeightConfigs ==
    { AGENT_WEIGHTS,
      ("A" :> Lit(1, 2)) @@ ("B" :> Lit(1, 2)),
      ("RevenueAgent" :> RNeg(Lit(1, 2))) @@ ("CostAgent" :> Zero),
      ("A" :> Zero) @@ ("B" :> Zero) }

StoreUnused == store = <<>> /\ call = <<>>

SimsUnused == sims = <<>> /\ frame = <<>> /\ results = <<>>

\* NegotiationEngine(agent_weights), before any proposal is collected.
EngineStart ==
    /\ agent_weights \in WeightConfigs
    /\ batch = <<>>
    /\ consensus = <<>>
    /\ StoreUnused
    /\ SimsUnused

\* A caller collects one more proposal for the batch.
Submit(p) ==
    /\ consensus = <<>>
    /\ Len(batch) < MaxBatch
    /\ batch' = Append(batch, p)
    /\ UNCHANGED <<bits, agent_weights, consensus, storeVars, simVars>>

\* NegotiationEngine.negotiate(batch); consensus holds the returned result.
Negotiate ==
    /\ consensus = <<>>
    /\ consensus' = <<negotiate(agent_weights, batch)>>
    /\ UNCHANGED <<bits, agent_weights, batch, storeVars, simVars>>

NextEngine ==
    \/ \E p \in ProposalPool : Submit(p)
    \/ Negotiate

\* The resolver in exact arithmetic.
InitEngine == bits = 0 /\ EngineStart

\* The resolver in rounded binary arithmetic.
InitEngineFloat == bits = MantissaBits /\ EngineStart

SpecEngine == InitEngine /\ [][NextEngine]_vars

SpecEngineFloat == InitEngineFloat /\ [][NextEngine]_vars

\* ------------------------------------------- the environment used directly
MaxRound == 2

\* initial_state arguments of the constructor: none, in-bound overrides, and
\* overrides outside the bounds (the constructor takes any values).
InitialStates ==
    { <<>>,
      ("revenue" :> Lit(100, 1)) @@ ("volatility" :> Lit(1, 2)),
      ("revenue" :> Lit(1000000000, 1)) @@ ("risk_score" :> Lit(3, 2))
          @@ ("marketing_budget" :> Zero) }

StoreDeltas ==
    { <<>>,
      ("revenue" :> RNeg(Lit(2, 1))) @@ ("x" :> Tenth),
      ("revenue" :> Tenth) @@ ("cost" :> RNeg(Tenth)) @@ ("churn" :> Zero),
      ("risk_score" :> Lit(2, 1)) @@ ("growth_rate" :> Lit(50, 1))
          @@ ("revenue" :> Lit(1, 1)) @@ ("cost" :> RNeg(Lit(3, 2))) }

StoreNoise == {Zero, Lit(1, 20), RNeg(Lit(1, 20))}

ResetOverrides == {<<>>, ("revenue" :> Lit(100, 1))}

EngineUnused == agent_weights = AGENT_WEIGHTS /\ batch = <<>> /\ consensus = <<>>

Call(op, deltas, noise, before, ret) ==
    [op |-> op, deltas |-> deltas, noise |-> noise, before |-> before, ret |-> ret]

InitStore ==
    /\ bits = 0
    /\ EngineUnused
    /\ SimsUnused
    /\ \E init \in InitialStates :
          /\ store = EnvInit(init)
          /\ call = Call("init", init, Zero, store.state, store.state)

Apply(deltas, noise) ==
    /\ store.round < MaxRound
    /\ store' = apply_deltas(store, deltas, noise)
    /\ call' = Call("apply_deltas", deltas, noise, store.state, store'.state)
    /\ UNCHANGED <<bits, engineVars, simVars>>

\* A snapshot that leaves a trace in the history.
SnapshotRecording ==
    /\ store' = [store EXCEPT !.history = <<snapshot(store)>>]
    /\ call' = Call("snapshot", <<>>, Zero, store.state, snapshot(store))
    /\ UNCHANGED <<bits, engineVars, simVars>>

\* store.snapshot()
Snapshot ==
    /\ call' = Call("snapshot", <<>>, Zero, store.state, snapshot(store))
    /\ UNCHANGED <<bits, engineVars, store, simVars>>

Reset(initial_state) ==
    /\ store' = reset(store, initial_state)
    /\ call' = Call("reset", initial_state, Zero, store.state, store'.state)
    /\ UNCHANGED <<bits, engineVars, simVars>>

NextStore ==
    \/ \E deltas \in StoreDeltas, noise \in StoreNoise : Apply(deltas, noise)
    \/ Snapshot
    \/ \E initial_state \in ResetOverrides : Reset(initial_state)

SpecStore == InitStore /\ [][NextStore]_vars

\* --------------------------------------------------- Simulators and runs
MaxRuns == 2
MaxRounds == 2

Sims == {1, 2}
Seeds == {42, 1}

\* The n_rounds arguments tried: no round at all, and the longest run.
RoundCounts == {0, MaxRounds}

SimConfig(initial_state, seed, agents) ==
    [initial_state |-> initial_state, seed |-> seed, agents |-> agents]

SimConfigs ==
    { SimConfig(None, 42, None),
      SimConfig(Some(("risk_score" :> Lit(70, 100)) @@ ("churn" :> Lit(20, 100))
                     @@ ("volatility" :> Lit(50, 100))
                     @@ ("cost" :> Lit(900000, 1))),
                1, Some(<<>>)),
      SimConfig(Some(("volatility" :> Lit(50, 100))), 42,
                Some(<<RevenueAgent(Lit(30, 100)),
                       BaseAgent("Contrarian", "Contrarian", Lit(2, 1))>>)),
      SimConfig(None, 42, Some(<<BaseAgent("Idle", "Idle", One)>>)),
      SimConfig(Some(("growth_rate" :> Lit(10, 100))), 1,
                Some(<<GrowthAgent(Lit(20, 100)),
                       BaseAgent("Reckless", "Reckless", One),
                       BaseAgent("GrowthAgent", "Contrarian", One)>>)),
      SimConfig(None, 42,
                Some(<<BaseAgent("Idle", "Idle", One),
                       BaseAgent("Reckless", "Reckless", Lit(1, 2))>>)) }

TotalRuns == Len(results[1]) + Len(results[2]) + Len(frame)

InitSim ==
    /\ bits = MantissaBits
    /\ EngineUnused
    /\ StoreUnused
    /\ \E cfg \in SimConfigs, seed \in Seeds :
          sims = [s \in Sims |->
                     SimulatorInit(s, cfg.initial_state,
                                   IF s = 1 THEN cfg.seed ELSE seed,
                                   cfg.agents)]
    /\ frame = <<>>
    /\ results = [s \in Sims |-> <<>>]

\* run(n_rounds, stochastic=...): the state is reset and the loop is entered.
RunBegin(s, n_rounds, stochastic) ==
    /\ frame = <<>>
    /\ TotalRuns < MaxRuns
    /\ LET Entered(env) ==
               /\ sims' = [sims EXCEPT
                             ![s].env = env,
                             ![s].agents = [i \in DOMAIN @ |-> AgentReset(@[i])]]
               /\ frame' = <<RunFrame(s, n_rounds, stochastic, snapshot(env))>>
       IN  Entered(reset(sims[s].env, <<>>))
    /\ UNCHANGED <<bits, engineVars, storeVars, results>>

\* The loop header and state_before = self._env.snapshot().
RoundBegin ==
    /\ frame # <<>>
    /\ frame[1].pc = "loop"
    /\ LoopContinues(frame[1])
    /\ frame' = <<[frame[1] EXCEPT
                     !.round_idx = @ + 1,
                     !.state_before = snapshot(sims[frame[1].self].env),
                     !.pc = "act"]>>
    /\ UNCHANGED <<bits, engineVars, storeVars, sims, results>>

\* proposals = [agent.act(state_before) for agent in self._agents].  When
\* building a proposal raises ValueError, the agents before the offender have
\* acted and the error leaves run().
RoundAct ==
    /\ frame # <<>>
    /\ frame[1].pc = "act"
    /\ LET f == frame[1]
           agents == sims[f.self].agents
           Collected(acted, proposals, k) ==
               IF k = 0
               THEN /\ sims' = [sims EXCEPT ![f.self].agents = acted]
                    /\ frame' = <<[f EXCEPT !.proposals = proposals,
                                            !.pc = "negotiate"]>>
                    /\ results' = results
               ELSE /\ sims' = [sims EXCEPT ![f.self].agents =
                                   [i \in DOMAIN agents |->
                                       IF i < k THEN acted[i] ELSE agents[i]]]
                    /\ frame' = <<>>
                    /\ results' = [results EXCEPT ![f.self] =
                                      Append(@, Outcome(f, TRUE, <<>>))]
           Gathered(acted, proposals) ==
               Collected(acted, proposals, FirstRejected(proposals))
           Acted(acted) ==
               Gathered(acted, [i \in DOMAIN acted |->
                                   acted[i].history[Len(acted[i].history)]])
       IN  Acted(ActAll(agents, f.state_before, Len(agents)))
    /\ UNCHANGED <<bits, engineVars, storeVars>>

\* consensus = self._engine.negotiate(proposals)
RoundNegotiate ==
    /\ frame # <<>>
    /\ frame[1].pc = "negotiate"
    /\ frame' = <<[frame[1] EXCEPT
                     !.consensus = negotiate(sims[frame[1].self].engine,
                                             frame[1].proposals),
                     !.pc = "noise"]>>
    /\ UNCHANGED <<bits, engineVars, storeVars, sims, results>>

\* noise = self._rng.gauss(0.0, state_before.volatility * 0.1) if stochastic
\*         else 0.0
RoundNoise ==
    /\ frame # <<>>
    /\ frame[1].pc = "noise"
    /\ LET f == frame[1]
           rng == sims[f.self].rng
           sigma == FMul(f.state_before.values["volatility"], Lit(1, 10))
       IN  IF f.stochastic
           THEN /\ frame' = <<[f EXCEPT !.noise = gauss(rng, Zero, sigma),
                                        !.pc = "apply"]>>
                /\ sims' = [sims EXCEPT ![f.self].rng = Drawn(rng)]
           ELSE /\ frame' = <<[f EXCEPT !.noise = Zero, !.pc = "apply"]>>
                /\ sims' = sims
    /\ UNCHANGED <<bits, engineVars, storeVars, results>>

\* state_after = self._env.apply_deltas(consensus.final_deltas, noise=noise)
RoundApply ==
    /\ frame # <<>>
    /\ frame[1].pc = "apply"
    /\ LET f == frame[1]
           Stored(env) ==
               /\ sims' = [sims EXCEPT ![f.self].env = env]
               /\ frame' = <<[f EXCEPT !.state_after = env.state, !.pc = "append"]>>
       IN  Stored(apply_deltas(sims[f.self].env, f.consensus.final_deltas, f.noise))
    /\ UNCHANGED <<bits, engineVars, storeVars, results>>

\* rounds.append(RoundResult(..., noise=round(noise, 6)))
RoundRecord ==
    /\ frame # <<>>
    /\ frame[1].pc = "append"
    /\ LET f == frame[1]
       IN  frame' = <<[f EXCEPT
                         !.rounds = Append(@, RoundResult(f.round_idx, f.proposals,
                                                          f.consensus, f.state_before,
                                                          f.state_after,
                                                          RoundDec(f.noise, 6))),
                         !.pc = "loop"]>>
    /\ UNCHANGED <<bits, engineVars, storeVars, sims, results>>

\* return SimulationResult(...), once the loop is over.
RunReturn ==
    /\ frame # <<>>
    /\ frame[1].pc = "loop"
    /\ ~LoopContinues(frame[1])
    /\ LET f == frame[1]
           value == SimulationResult(f.rounds, f.initial_state,
                                     snapshot(sims[f.self].env), f.scenario_name)
       IN  results' = [results EXCEPT ![f.self] =
                          Append(@, Outcome(f, FALSE, <<value>>))]
    /\ frame' = <<>>
    /\ UNCHANGED <<bits, engineVars, storeVars, sims>>

\* One step of the run() call in progress.
RunStep ==
    \/ RoundBegin
    \/ RoundAct
    \/ RoundNegotiate
    \/ RoundNoise
    \/ RoundApply
    \/ RoundRecord
    \/ RunReturn

NextSim ==
    \/ \E s \in Sims, n_rounds \in RoundCounts, stochastic \in BOOLEAN :
          RunBegin(s, n_rounds, stochastic)
    \/ RunStep

SpecSim == InitSim /\ [][NextSim]_vars

\* ---------------------------------------------- claims on the environment
Applied == call.op = "apply_deltas"

\* What apply_deltas computed for `key` before clamping, from the recorded
\* arguments of the call.
RawOf(key) ==
    RawValue(call.before.values[key], DeltaOf(call.deltas, key), call.noise)

InBounds(key, value) ==
    RLe(BoundsOf(key)[1], value) /\ RLe(value, BoundsOf(key)[2])

\* C1: after every apply_deltas, whatever the deltas, the noise and the state
\* it started from, each field of the new state lies within its [lo, hi].
C1_ApplyWithinBounds ==
    Applied => \A key \in Fields : InBounds(key, call.ret.values[key])

\* An apply_deltas that had to clamp one field down to hi and another up to lo.
C1_Witness ==
    /\ Applied
    /\ \E key \in Fields : RLt(BoundsOf(key)[2], RawOf(key))
    /\ \E key \in Fields : RLt(RawOf(key), BoundsOf(key)[1])

\* old x (1 + delta + s x noise), clamped, with the sign s given by `sign`.
ClaimValue(key, s) ==
    LET old == call.before.values[key]
        delta == DeltaOf(call.deltas, key)
        raw == RMul(old, RAdd(RAdd(One, delta), RMul(s, call.noise)))
    IN  PyMax(BoundsOf(key)[1], PyMin(BoundsOf(key)[2], raw))

\* s = +1 for a strictly positive delta, -1 for a zero, negative or absent one.
SignStrict(key) ==
    IF key \in DOMAIN call.deltas /\ RLt(Zero, call.deltas[key])
    THEN One ELSE RNeg(One)

\* s = -1 for a strictly negative delta, +1 for a positive, zero or absent one.
SignNonNegative(key) ==
    IF key \in DOMAIN call.deltas /\ RLt(call.deltas[key], Zero)
    THEN RNeg(One) ELSE One

Unclamped(key) ==
    /\ call.before.values[key] # Zero
    /\ RLt(BoundsOf(key)[1], RawOf(key))
    /\ RLt(RawOf(key), BoundsOf(key)[2])

FirstRun(s) == results[s][1]

\* Two Simulators built from the same arguments whose first run() calls took
\* the same arguments.
Twins(s, t) ==
    /\ sims[s].args = sims[t].args
    /\ results[s] # <<>>
    /\ results[t] # <<>>
    /\ FirstRun(s).n_rounds = FirstRun(t).n_rounds
    /\ FirstRun(s).stochastic = FirstRun(t).stochastic

WellBehaved(s) ==
    \A i \in DOMAIN sims[s].agents : sims[s].agents[i].kind # "Reckless"

RoundsInOrder(rounds, n) ==
    /\ Len(rounds) = n
    /\ \A i \in 1..n : rounds[i].round_number = i

\* Every run() that has returned gave exactly n_rounds records, numbered
\* 1..n_rounds in order; only a rejected proposal ends a run without a result.
EveryRoundRecorded ==
    \A s \in Sims : \A i \in DOMAIN results[s] :
        IF results[s][i].raised THEN ~WellBehaved(s)
        ELSE RoundsInOrder(results[s][i].value[1].rounds, results[s][i].n_rounds)

Running == frame # <<>>

\* The statements of one pass through the loop body, in order, after the
\* loop header.
BodyPositions == <<"act", "negotiate", "noise", "apply", "append">>

PositionOf(pc) == CHOOSE i \in DOMAIN BodyPositions : BodyPositions[i] = pc

\* How many steps the run() call in progress still has to take: the rest of
\* the current pass, every pass still to come, and the return.
StepsLeft(fr) ==
    IF fr = <<>> THEN 0
    ELSE LET f == fr[1]
             passes == (f.n_rounds - f.round_idx) * (Len(BodyPositions) + 1)
         IN  IF f.pc = "loop" THEN passes + 1
             ELSE passes + (Len(BodyPositions) + 1 - PositionOf(f.pc)) + 1

\* The run() call in progress stands at a statement of the loop, within its
\* n_rounds passes; every such statement has a step it can take.
RunCanStep ==
    Running =>
        /\ frame[1].pc \in {"loop"} \cup {BodyPositions[i] : i \in DOMAIN BodyPositions}
        /\ frame[1].round_idx \in 0..frame[1].n_rounds
        /\ frame[1].pc # "loop" => frame[1].round_idx >= 1
        /\ Len(frame[1].rounds) =
              IF frame[1].pc = "loop" THEN frame[1].round_idx
              ELSE frame[1].round_idx - 1

\* A step of the run() call in progress takes one off the steps it has left,
\* or ends the call.
RunAdvances ==
    Running => \/ StepsLeft(frame') = StepsLeft(frame) - 1
               \/ ~Running'

\* C3: run(n_rounds) terminates and returns exactly n_rounds records with
\* round numbers 1..n_rounds in order, for n_rounds >= 0; the loop never ends
\* early, whether or not the consensus is empty or the state has stopped
\* changing.  Termination is by the count of steps left: it is a natural
\* number, a run in progress can always step, and every step lowers it.
C3_RunsEveryRound ==
    /\ [](EveryRoundRecorded /\ RunCanStep)
    /\ [][RunAdvances]_vars

\* A full-length run that returned although every round of it had an empty
\* consensus and left the state as it was.
C3_Witness ==
    \E s \in Sims : \E i \in DOMAIN results[s] :
        /\ ~results[s][i].raised
        /\ results[s][i].n_rounds = MaxRounds
        /\ LET rounds == results[s][i].value[1].rounds
           IN  /\ Len(rounds) = MaxRounds
               /\ \A k \in DOMAIN rounds :
                     /\ DOMAIN rounds[k].consensus.final_deltas = {}
                     /\ rounds[k].state_after.values = rounds[k].state_before.values

\* ------------------------------------------------- claims on the resolver
Negotiated == consensus # <<>> /\ batch # <<>>

Result == consensus[1]

PositiveWeights == \A n \in DOMAIN agent_weights : RLt(Zero, agent_weights[n])

NonNegativeWeights == \A n \in DOMAIN agent_weights : RLe(Zero, agent_weights[n])

ProposedDeltas(key) ==
    {batch[i].deltas[key] : i \in {j \in DOMAIN batch : key \in DOMAIN batch[j].deltas}}

\* C4: with positive producer weights, every merged delta lies between the
\* smallest and the largest delta the proposals gave for its field.
C4_Convexity ==
    (Negotiated /\ PositiveWeights) =>
        \A key \in DOMAIN Result.final_deltas :
            /\ \E lo \in ProposedDeltas(key) : RLe(lo, Result.final_deltas[key])
            /\ \E hi \in ProposedDeltas(key) : RLe(Result.final_deltas[key], hi)

\* The effective weight the engine holds for a producer name.
HeldWeight(name) ==
    EffectiveWeights(agent_weights, batch,
                     ConflictAgents(Result.conflicts))[name]

StrictlyOpposite(x, y) ==
    (x[1] > 0 /\ y[1] < 0) \/ (x[1] < 0 /\ y[1] > 0)

ClaimShared(i, j) == DOMAIN batch[i].deltas \cap DOMAIN batch[j].deltas

ClaimConflicting(i, j) ==
    {k \in ClaimShared(i, j) : StrictlyOpposite(batch[i].deltas[k], batch[j].deltas[k])}

ClaimFlagged ==
    {pr \in (DOMAIN batch) \X (DOMAIN batch) :
        /\ pr[1] < pr[2]
        /\ ClaimShared(pr[1], pr[2]) # {}
        /\ 2 * Cardinality(ClaimConflicting(pr[1], pr[2]))
              >= Cardinality(ClaimShared(pr[1], pr[2]))}

ClaimRatio(pr) ==
    Rat(Cardinality(ClaimConflicting(pr[1], pr[2])),
        Cardinality(ClaimShared(pr[1], pr[2])))

ClaimReport(pr, severity) ==
    [agent_a |-> batch[pr[1]].agent_name, agent_b |-> batch[pr[2]].agent_name,
     conflicting_keys |-> ClaimConflicting(pr[1], pr[2]),
     severity |-> severity]

Reports == {Result.conflicts[i] : i \in DOMAIN Result.conflicts}

ClaimWeight(i) ==
    FMul(FMul(BaseWeight(agent_weights, batch[i].agent_name), batch[i].confidence),
         IF \E c \in Reports : batch[i].agent_name \in {c.agent_a, c.agent_b}
         THEN CONFLICT_PENALTY ELSE One)

ClaimIndices(key) == {i \in DOMAIN batch : key \in DOMAIN batch[i].deltas}

RECURSIVE ClaimSumTo(_, _, _)
ClaimSumTo(key, n, withDelta) ==
    IF n = 0 THEN Zero
    ELSE IF n \in ClaimIndices(key)
         THEN FAdd(ClaimSumTo(key, n - 1, withDelta),
                   IF withDelta THEN FMul(batch[n].deltas[key], ClaimWeight(n))
                   ELSE ClaimWeight(n))
         ELSE ClaimSumTo(key, n - 1, withDelta)

\* C8: every proposal is merged with base weight x its own confidence x
\* penalty: each merged delta is the average of the proposed deltas under
\* these weights (checked on engines with positive weights).
C8_OwnWeights ==
    (Negotiated /\ PositiveWeights) =>
        \A key \in AllKeys(batch) :
            LET den == ClaimSumTo(key, Len(batch), FALSE)
            IN  IF RLt(Zero, den)
                THEN /\ key \in DOMAIN Result.final_deltas
                     /\ Result.final_deltas[key]
                           = FDiv(ClaimSumTo(key, Len(batch), TRUE), den)
                ELSE key \notin DOMAIN Result.final_deltas

ValidBatch ==
    \A i \in DOMAIN batch :
        RLe(Zero, batch[i].confidence) /\ RLe(batch[i].confidence, One)

\* The total effective weight of the batch, before 1.0 stands in for 0.
ClaimTotal ==
    LET order == NameOrder(batch)
    IN  FSum([i \in 1..Len(order) |-> HeldWeight(order[i])])

\* C9: for every batch of valid proposals the confidence index lies in
\* [0, 1], and it is 0 when the total effective weight is 0 (checked on
\* engines with positive weights).
C9_IndexInUnit ==
    (Negotiated /\ ValidBatch /\ PositiveWeights) =>
        /\ RLe(Zero, Result.confidence_index)
        /\ RLe(Result.confidence_index, One)
        /\ ClaimTotal = Zero => Result.confidence_index = Zero

BatchOrders(n) ==
    {f \in [1..n -> 1..n] : \A i, j \in 1..n : f[i] = f[j] => i = j}

Permuted(ps, f) == [i \in 1..Len(ps) |-> ps[f[i]]]

UnorderedConflicts(r) ==
    {<<{r.conflicts[i].agent_a, r.conflicts[i].agent_b},
       r.conflicts[i].conflicting_keys>> : i \in DOMAIN r.conflicts}

SameOutcome(r1, r2) ==
    /\ r1.final_deltas = r2.final_deltas
    /\ r1.confidence_index = r2.confidence_index
    /\ r1.agent_votes = r2.agent_votes
    /\ UnorderedConflicts(r1) = UnorderedConflicts(r2)

\* C10: negotiate returns the same final_deltas, confidence_index, vote
\* shares and set of flagged pairs for every permutation of the batch (checked
\* on engines with positive weights).
C10_OrderInvariant ==
    (Negotiated /\ PositiveWeights) =>
        \A f \in BatchOrders(Len(batch)) :
            SameOutcome(Result, negotiate(agent_weights, Permuted(batch, f)))

\* C11: an engine holding a zero or negative weight for some producer is
\* rejected at construction, so no batch is ever resolved with such weights.
C11_WeightsRejected == Negotiated => PositiveWeights

\* ------------------------------------------ claims on proposals and rounds
InUnit(confidence) == RLe(Zero, confidence) /\ RLe(confidence, One)

SeqRange(seq) == {seq[i] : i \in DOMAIN seq}

RoundsProposals(rounds) ==
    UNION {SeqRange(rounds[k].proposals) : k \in DOMAIN rounds}

\* Every proposal held anywhere: in the records of the results returned, in
\* the records and the list of the run in progress, in the evaluators'
\* histories.
RetainedProposals ==
    UNION ( {RoundsProposals(results[s][i].value[1].rounds) :
                <<s, i>> \in {<<s, i>> \in Sims \X (1..MaxRuns) :
                                 /\ i \in DOMAIN results[s]
                                 /\ ~results[s][i].raised}}
            \cup {SeqRange(sims[s].agents[i].history) :
                     <<s, i>> \in {<<s, i>> \in Sims \X (1..4) :
                                      i \in DOMAIN sims[s].agents}}
            \cup (IF frame = <<>> THEN {}
                  ELSE {RoundsProposals(frame[1].rounds)}
                       \cup (IF frame[1].pc \in {"negotiate", "noise", "apply", "append"}
                             THEN {SeqRange(frame[1].proposals)} ELSE {})) )

EveryRetainedInUnit == \A p \in RetainedProposals : InUnit(p.confidence)

\* What each evaluator of the run in progress builds in this round.
Built(f) ==
    [i \in DOMAIN sims[f.self].agents |->
        Propose(sims[f.self].agents[i], f.state_before)]

\* The round's evaluators are called: the call yields the proposals built
\* when all their confidences are in [0, 1], the bounds included, and fails
\* without a proposal list otherwise.
BuildChecksConfidence ==
    (frame # <<>> /\ frame[1].pc = "act") =>
        LET Checked(f, built) ==
                IF \A i \in DOMAIN built : InUnit(built[i].confidence)
                THEN /\ frame' # <<>>
                     /\ frame'[1].proposals = built
                     /\ results' = results
                ELSE /\ frame' = <<>>
                     /\ Len(results'[f.self]) = Len(results[f.self]) + 1
                     /\ results'[f.self][Len(results'[f.self])].raised
                     /\ results'[f.self][Len(results'[f.self])].value = <<>>
        IN  Checked(frame[1], Built(frame[1]))

\* C12: building an AgentProposal with a confidence below 0 or above 1 always
\* fails and yields no proposal, confidences of exactly 0 and exactly 1 are
\* accepted, and every proposal retained has a confidence in [0, 1].
C12_ConfidenceInUnit ==
    /\ []EveryRetainedInUnit
    /\ [][BuildChecksConfidence]_vars

\* A run has failed on a confidence below 0, and the records of the run in
\* progress hold a proposal of confidence exactly 0 and one of exactly 1.
C12_Witness ==
    /\ \E i \in DOMAIN results[1] : results[1][i].raised
    /\ frame # <<>>
    /\ \E p \in RoundsProposals(frame[1].rounds) : p.confidence = Zero
    /\ \E p \in RoundsProposals(frame[1].rounds) : p.confidence = One
    /\ \E i \in DOMAIN sims[1].agents :
          /\ sims[1].agents[i].kind = "Reckless"
          /\ RLt(Propose(sims[1].agents[i], sims[1].env.state).confidence, Zero)

\* The step on which the evaluator calls of round round_idx fail.
RoundAborts == frame # <<>> /\ frame[1].pc = "act" /\ frame' = <<>>

\* The failing step leaves the store as the k - 1 rounds before it made it,
\* and the run ends without a result, hence without a record of round k.
AbortBeforeApply ==
    RoundAborts =>
        LET Left(f, env) ==
                /\ sims'[f.self].env = env
                /\ env.round = f.round_idx - 1
                /\ Len(env.history) = f.round_idx - 1
                /\ (f.round_idx > 1 =>
                       env.state = f.rounds[f.round_idx - 1].state_after)
                /\ Len(f.rounds) = f.round_idx - 1
                /\ results'[f.self] = Append(results[f.self], Outcome(f, TRUE, <<>>))
        IN  Left(frame[1], sims[frame[1].self].env)

\* The resolver and apply are reached only with a full list of accepted
\* proposals, one per evaluator.
ResolverSeesAccepted ==
    (frame # <<>> /\ frame[1].pc \in {"negotiate", "noise", "apply", "append"}) =>
        /\ Len(frame[1].proposals) = Len(sims[frame[1].self].agents)
        /\ \A i \in DOMAIN frame[1].proposals :
              InUnit(frame[1].proposals[i].confidence)

\* C13: when building a proposal fails in round k, the round is aborted
\* before the resolver and before apply: the store stays at round counter
\* k - 1 with k - 1 history entries and an unchanged state, and no record of
\* round k is produced.
C13_AbortLeavesStore ==
    /\ []ResolverSeesAccepted
    /\ [][AbortBeforeApply]_vars

\* A run has just failed in its second round: the store holds the one round
\* applied before.
C13_Witness ==
    /\ frame = <<>>
    /\ \E s \in Sims :
          /\ results[s] # <<>>
          /\ results[s][Len(results[s])].raised
          /\ sims[s].env.round = 1
          /\ Len(sims[s].env.history) = 1
          /\ sims[s].env.state.values # sims[s].env.initial

\* C14: calling run() twice on one Simulator with the same n_rounds and
\* stochastic flag returns two equal results, the second call starting from
\* the same store state, histories and random-source state as the first.
C14_RepeatedRunsEqual ==
    \A s \in Sims : \A i, j \in DOMAIN results[s] :
        (/\ results[s][i].n_rounds = results[s][j].n_rounds
         /\ results[s][i].stochastic = results[s][j].stochastic)
        => results[s][i] = results[s][j]

\* ------------------------------------------------- claims on the StateStore
\* C15: in every reachable state of the store, after construction with any
\* initial values, after reset with any override and after any apply, every
\* field lies within its inclusive [lo, hi] bounds.
C15_StoreWithinBounds ==
    \A key \in Fields : InBounds(key, store.state.values[key])

\* The history has one entry per round applied, the i-th numbered i.
HistoryCountsRounds ==
    /\ Len(store.history) = store.round
    /\ \A i \in DOMAIN store.history : store.history[i].round_number = i

IsPrefix(short, long) ==
    /\ Len(short) <= Len(long)
    /\ \A i \in DOMAIN short : short[i] = long[i]

\* An apply adds one to the round counter and appends one snapshot, equal to
\* the new state it returns; no call but reset removes or changes an entry.
ApplyAppendsOne ==
    /\ call'.op = "apply_deltas" =>
          /\ store'.round = store.round + 1
          /\ store'.history = Append(store.history, store'.state)
          /\ call'.ret = store'.state
    /\ call'.op # "reset" => IsPrefix(store.history, store'.history)

\* C16: every apply raises the round counter by exactly 1 and appends exactly
\* one snapshot, equal to the new state; the history is as long as the round
\* counter, its i-th entry has round number i, and it only grows, except by
\* reset.
C16_HistoryTracksRounds ==
    /\ []HistoryCountsRounds
    /\ [][ApplyAppendsOne]_vars

\* The second apply in a row has just been made, and changed the state.
C16_Witness ==
    /\ call.op = "apply_deltas"
    /\ store.round = 2
    /\ Len(store.history) = 2
    /\ store.history[1].values # store.history[2].values
    /\ store.history[2] = store.state

\* The store as construction left it, and as every reset leaves it: the
\* construction values, with the fields of the reset's override replaced, at
\* round 0 with an empty history.
ResetRestores ==
    /\ call.op = "init" =>
          /\ store.initial = Updated(ENV_DEFAULTS, call.deltas)
          /\ store.state = EnvironmentState(store.initial, 0)
    /\ call.op = "reset" =>
          /\ store.state = EnvironmentState(Updated(store.initial, call.deltas), 0)
          /\ call.deltas = <<>> => store.state.values = store.initial
          /\ store.round = 0
          /\ store.history = <<>>

\* No call changes the construction values the store goes back to.
ConstructionValuesKept == store'.initial = store.initial

\* C17: reset() without an override restores the construction values, round
\* counter 0 and an empty history; reset(override) restores the construction
\* values with the override's fields replaced; an override is not remembered
\* by later resets.
C17_ResetRestores ==
    /\ []ResetRestores
    /\ [][ConstructionValuesKept]_vars

\* A reset without override, made on a store that a reset with a revenue
\* override had left: the revenue is back at its construction value.
C17_Witness ==
    /\ call.op = "reset"
    /\ call.deltas = <<>>
    /\ call.before.round_number = 0
    /\ call.before.values["revenue"] = Lit(100, 1)
    /\ store.initial["revenue"] # Lit(100, 1)
    /\ store.state.values["revenue"] = store.initial["revenue"]

\* ------------------------------------------------ claims on a run's rounds
\* Simulator s is between two run() calls and its last one returned a result.
Completed(s) ==
    /\ ~(frame # <<>> /\ frame[1].self = s)
    /\ results[s] # <<>>
    /\ ~results[s][Len(results[s])].raised

LastResult(s) == results[s][Len(results[s])].value[1]

\* What a completed run leaves behind is what its own n rounds produced.
HoldsOwnRun(s, n, rounds) ==
    /\ Len(rounds) = n
    /\ sims[s].env.round = n
    /\ sims[s].env.history = [i \in 1..n |-> rounds[i].state_after]
    /\ \A j \in DOMAIN sims[s].agents :
          sims[s].agents[j].history = [i \in 1..n |-> rounds[i].proposals[j]]

\* C18: every run resets the store and every evaluator before round 1: once
\* run(n) has completed, the store's round counter is n, its history is the
\* n snapshots of this run, and each evaluator's history is its n proposals
\* of this run, whatever earlier runs did.
C18_RunStartsFresh ==
    \A s \in Sims :
        Completed(s) =>
            HoldsOwnRun(s, results[s][Len(results[s])].n_rounds, LastResult(s).rounds)

\* The second full run of one Simulator has completed, after a first one that
\* left MaxRounds entries in the store and in every evaluator.
C18_Witness ==
    /\ frame = <<>>
    /\ \E s \in Sims :
          /\ Len(results[s]) = 2
          /\ Completed(s)
          /\ ~results[s][1].raised
          /\ results[s][1].n_rounds = MaxRounds
          /\ results[s][2].n_rounds = MaxRounds
          /\ sims[s].agents # <<>>
          /\ results[s][1] # results[s][2]

\* One step of a round, by the statement the run stands at: what it may
\* read, what it may change, and the statement it leads to.
RoundInOrder ==
    frame # <<>> =>
        LET Ordered(f, me) ==
                /\ \A s \in Sims \ {f.self} : sims'[s] = sims[s]
                /\ sims'[f.self].engine = me.engine
                /\ f.pc # "apply" => sims'[f.self].env = me.env
                /\ f.pc # "act" => sims'[f.self].agents = me.agents
                /\ frame' # <<>> =>
                      CASE f.pc = "loop" ->
                              /\ frame'[1].pc = "act"
                              /\ frame'[1].state_before = snapshot(me.env)
                        [] f.pc = "act" ->
                              /\ frame'[1].pc = "negotiate"
                              /\ frame'[1].state_before = f.state_before
                              /\ DOMAIN frame'[1].proposals = DOMAIN me.agents
                              /\ \A i \in DOMAIN me.agents :
                                    /\ frame'[1].proposals[i] =
                                          Propose(me.agents[i], f.state_before)
                                    /\ sims'[f.self].agents[i].history =
                                          Append(me.agents[i].history,
                                                 frame'[1].proposals[i])
                        [] f.pc = "negotiate" ->
                              /\ frame'[1].pc = "noise"
                              /\ frame'[1].proposals = f.proposals
                              /\ frame'[1].consensus = negotiate(me.engine, f.proposals)
                        [] f.pc = "noise" ->
                              /\ frame'[1].pc = "apply"
                              /\ frame'[1].consensus = f.consensus
                              /\ ~f.stochastic => frame'[1].noise = Zero
                        [] f.pc = "apply" ->
                              /\ frame'[1].pc = "append"
                              /\ sims'[f.self].env =
                                    apply_deltas(me.env, f.consensus.final_deltas,
                                                 f.noise)
                              /\ sims'[f.self].env.round = me.env.round + 1
                              /\ frame'[1].state_after = sims'[f.self].env.state
                        [] f.pc = "append" ->
                              /\ frame'[1].pc = "loop"
                              /\ frame'[1].rounds =
                                    Append(f.rounds,
                                           RoundResult(f.round_idx, f.proposals,
                                                       f.consensus, f.state_before,
                                                       f.state_after,
                                                       RoundDec(f.noise, 6)))
        IN  Ordered(frame[1], sims[frame[1].self])

\* C19: each round takes state_before, calls act exactly once on every
\* evaluator in registration order with that same state_before, resolves the
\* proposals in that order, draws the noise, and calls apply exactly once
\* with the resolver's final_deltas; nothing else changes the store during a
\* round.
C19_RoundInOrder == [][RoundInOrder]_vars

\* The second round of a stochastic run with several evaluators has just
\* been recorded: its consensus merged fields and its noise was not zero.
C19_Witness ==
    /\ frame # <<>>
    /\ frame[1].pc = "loop"
    /\ frame[1].round_idx = 2
    /\ Len(sims[frame[1].self].agents) >= 2
    /\ frame[1].rounds[2].noise # Zero
    /\ frame[1].rounds[2].consensus.final_deltas # <<>>
    /\ frame[1].rounds[2].state_before # frame[1].rounds[2].state_after
    /\ sims[frame[1].self].env.round = 2

\* The snapshots of the records chain: the first round starts from
\* initial_state, each later round from where the one before ended, and each
\* round ends one round number further.
Chained(initial_state, rounds) ==
    /\ rounds # <<>> => rounds[1].state_before = initial_state
    /\ \A k \in DOMAIN rounds :
          /\ k + 1 \in DOMAIN rounds =>
                rounds[k + 1].state_before = rounds[k].state_after
          /\ rounds[k].state_after.round_number =
                rounds[k].state_before.round_number + 1

TraceChained(trace) ==
    /\ Chained(trace.initial_state, trace.rounds)
    /\ trace.rounds # <<>> =>
          trace.final_state = trace.rounds[Len(trace.rounds)].state_after

SnapshotsChained ==
    /\ \A s \in Sims : \A i \in DOMAIN results[s] :
          ~results[s][i].raised => TraceChained(results[s][i].value[1])
    /\ frame # <<>> => Chained(frame[1].initial_state, frame[1].rounds)

\* Records appended and results returned stay as they are.
RecordsKept ==
    /\ (frame # <<>> /\ frame' # <<>>) => IsPrefix(frame[1].rounds, frame'[1].rounds)
    /\ frame # <<>> /\ frame' = <<>> /\ ~results'[frame[1].self][Len(results'[frame[1].self])].raised
          => results'[frame[1].self][Len(results'[frame[1].self])].value[1].rounds
                = frame[1].rounds
    /\ \A s \in Sims : IsPrefix(results[s], results'[s])

\* C20: in every RunTrace with at least one round, state_before of round 1 is
\* initial_state, state_before of round k+1 is state_after of round k,
\* final_state is state_after of the last round, and each round's state_after
\* has the round number of its state_before plus 1; a record appended is not
\* changed by later rounds.
C20_SnapshotsChain ==
    /\ []SnapshotsChained
    /\ [][RecordsKept]_vars

\* A run of MaxRounds rounds has returned, and each of its rounds changed
\* the state.
C20_Witness ==
    \E s \in Sims :
        /\ Completed(s)
        /\ Len(LastResult(s).rounds) = MaxRounds
        /\ \A k \in DOMAIN LastResult(s).rounds :
              LastResult(s).rounds[k].state_after.values #
                  LastResult(s).rounds[k].state_before.values
        /\ LastResult(s).final_state.values # LastResult(s).initial_state.values

\* ------------------------------------------------ claims on a round's noise
\* The record just appended by the run in progress.
JustRecorded == frame # <<>> /\ frame[1].pc = "loop" /\ frame[1].rounds # <<>>

LastRecord == frame[1].rounds[Len(frame[1].rounds)]

\* The apply step of a round passes the noise drawn, and the record step
\* that follows stores `stored(noise)` for that same noise.
RecordsApplied(f, stored) ==
    /\ f.pc = "apply" =>
          /\ sims'[f.self].env =
                apply_deltas(sims[f.self].env, f.consensus.final_deltas, f.noise)
          /\ frame'[1].noise = f.noise
    /\ f.pc = "append" =>
          frame'[1].rounds[Len(frame'[1].rounds)].noise = stored

\* Without stochastic mode the noise is 0 in every record.
DeterministicNoiseZero ==
    /\ \A s \in Sims : \A i \in DOMAIN results[s] :
          (~results[s][i].raised /\ ~results[s][i].stochastic) =>
              \A k \in DOMAIN results[s][i].value[1].rounds :
                  results[s][i].value[1].rounds[k].noise = Zero
    /\ (frame # <<>> /\ ~frame[1].stochastic) =>
          \A k \in DOMAIN frame[1].rounds : frame[1].rounds[k].noise = Zero

RevenueScenario ==
    /\ Applied
    /\ call.before.values["revenue"] = Lit(100, 1)
    /\ DeltaOf(call.deltas, "revenue") = RNeg(Lit(2, 1))
    /\ call.noise = Zero

\* What the resolver makes of the scenario's single proposal.
ScenarioResolved ==
    negotiate(AGENT_WEIGHTS,
              <<Proposal("RevenueAgent", "cut", ("revenue" :> RNeg(Lit(2, 1))),
                         Lit(8, 10))>>).final_deltas

\* C22: when the unclamped result of a field falls below the field's lower
\* bound, apply sets the field to exactly the lower bound, and to exactly the
\* upper bound when it exceeds that; a single proposal with delta -2 on
\* revenue = 100, resolved and applied without noise, leaves revenue = 1.
C22_ClampsToBound ==
    /\ Applied => \A key \in Fields :
          /\ RLt(RawOf(key), BoundsOf(key)[1]) =>
                call.ret.values[key] = BoundsOf(key)[1]
          /\ RLt(BoundsOf(key)[2], RawOf(key)) =>
                call.ret.values[key] = BoundsOf(key)[2]
    /\ RevenueScenario =>
          /\ ScenarioResolved = ("revenue" :> RNeg(Lit(2, 1)))
          /\ call.ret.values["revenue"] = One
          /\ BoundsOf("revenue") = <<One, Lit(1000000000, 1)>>

\* The scenario has been applied to a store whose risk_score stood above its
\* upper bound: revenue went up to its lower bound, risk_score down to its
\* upper bound.
C22_Witness ==
    /\ RevenueScenario
    /\ RLt(RawOf("revenue"), Zero)
    /\ store.state.values["revenue"] = One
    /\ RLt(One, RawOf("risk_score"))
    /\ store.state.values["risk_score"] = One

\* ------------------------------------------- more claims on the resolver
\* A batch of two producers with equal base weight and equal non-zero
\* confidence whose deltas on their sole shared field `key` are of equal
\* magnitude and opposite sign.
OpposedPair(key) ==
    /\ Len(batch) = 2
    /\ batch[1].agent_name # batch[2].agent_name
    /\ BaseWeight(agent_weights, batch[1].agent_name) =
          BaseWeight(agent_weights, batch[2].agent_name)
    /\ batch[1].confidence = batch[2].confidence
    /\ batch[1].confidence # Zero
    /\ SharedKeys(batch[1], batch[2]) = {key}
    /\ batch[1].deltas[key] # Zero
    /\ batch[1].deltas[key] = RNeg(batch[2].deltas[key])

\* The pair is the one conflict reported, with severity 1 on `key`.
FlaggedInFull(key) ==
    /\ Len(Result.conflicts) = 1
    /\ {Result.conflicts[1].agent_a, Result.conflicts[1].agent_b} =
          {batch[1].agent_name, batch[2].agent_name}
    /\ Result.conflicts[1].conflicting_keys = {key}
    /\ Result.conflicts[1].severity = One

\* C23: when a batch consists of two producers with equal base weight and
\* equal non-zero confidence that propose deltas of equal magnitude and
\* opposite sign on their sole shared field, the pair is flagged as a
\* conflict with severity 1.0, both producers receive the same penalty, and
\* the merged delta for that field is exactly 0.
C23_OpposedPairCancels ==
    Negotiated => \A key \in AllKeys(batch) :
        OpposedPair(key) =>
            /\ FlaggedInFull(key)
            /\ Penalty(batch[1].agent_name, ConflictAgents(Result.conflicts)) =
                  Penalty(batch[2].agent_name, ConflictAgents(Result.conflicts))
            /\ key \in DOMAIN Result.final_deltas
            /\ Result.final_deltas[key] = Zero

\* negotiate has been called on the empty list.
NegotiatedEmpty == consensus # <<>> /\ batch = <<>>

\* C24: negotiate on an empty proposal list returns, without error, an
\* outcome with empty final_deltas, no conflicts, confidence_index 0 and no
\* vote shares.
C24_EmptyBatchNeutral ==
    NegotiatedEmpty =>
        /\ Result.final_deltas = <<>>
        /\ Result.conflicts = <<>>
        /\ Result.confidence_index = Zero
        /\ Result.agent_votes = <<>>
        /\ Result.proposals = <<>>

\* The empty list has been resolved by an engine that holds weights.
C24_Witness ==
    /\ NegotiatedEmpty
    /\ DOMAIN agent_weights # {}
    /\ DOMAIN Result = DOMAIN NoProposals

\* ---------------------------------------------- more claims on the Simulator
\* Every result of a run(0) has no record and equal initial and final
\* snapshots.
EmptyRunsTrivial ==
    \A s \in Sims : \A i \in DOMAIN results[s] :
        results[s][i].n_rounds = 0 =>
            /\ ~results[s][i].raised
            /\ results[s][i].value[1].rounds = <<>>
            /\ results[s][i].value[1].initial_state = results[s][i].value[1].final_state

\* The only step of a run(0) in progress is its return: it calls no
\* evaluator, draws no noise and leaves the store as the reset left it.
EmptyRunOnlyReturns ==
    (frame # <<>> /\ frame[1].n_rounds = 0) =>
        /\ frame' = <<>>
        /\ sims' = sims
        /\ sims[frame[1].self].env.round = 0
        /\ sims[frame[1].self].env.history = <<>>
        /\ \A i \in DOMAIN sims[frame[1].self].agents :
              sims[frame[1].self].agents[i].history = <<>>
        /\ Len(results'[frame[1].self]) = Len(results[frame[1].self]) + 1

\* C25: a run requested with n_rounds = 0 returns a RunTrace with zero
\* RoundRecords whose initial_state equals its final_state; no evaluator is
\* invoked, no noise is drawn and the store is not applied to.
C25_EmptyRun ==
    /\ []EmptyRunsTrivial
    /\ [][EmptyRunOnlyReturns]_vars

\* A run(0) has returned on a Simulator with evaluators whose earlier
\* stochastic run had gone through MaxRounds rounds.
C25_Witness ==
    /\ frame = <<>>
    /\ \E s \in Sims :
          /\ Len(results[s]) = 2
          /\ ~results[s][1].raised
          /\ results[s][1].n_rounds = MaxRounds
          /\ results[s][1].stochastic
          /\ results[s][2].n_rounds = 0
          /\ sims[s].agents # <<>>
          /\ sims[s].rng.draws = MaxRounds
          /\ sims[s].env.round = 0

\* What conflict detection reports of a list, without the producers' names.
Detected(ps) ==
    LET Stripped(conflicts) ==
            [i \in DOMAIN conflicts |->
                [conflicting_keys |-> conflicts[i].conflicting_keys,
                 severity |-> conflicts[i].severity]]
    IN  Stripped(detect_conflicts(ps))

\* C26: conflict detection is symmetric: for any two proposals a and b,
\* detecting conflicts on [a, b] and on [b, a] flags the pair in both cases
\* or in neither, with the same conflicting fields and the same severity.
C26_DetectionSymmetric ==
    \A i, j \in DOMAIN batch :
        /\ Detected(<<batch[i], batch[j]>>) = Detected(<<batch[j], batch[i]>>)
        /\ Len(Detected(<<batch[i], batch[j]>>)) <= 1

\* The batch holds a pair that is flagged on some of its shared fields only,
\* and a pair that shares fields and is not flagged.
C26_Witness ==
    /\ \E i, j \in DOMAIN batch :
          /\ Detected(<<batch[i], batch[j]>>) # <<>>
          /\ Detected(<<batch[i], batch[j]>>)[1].severity # One
          /\ Detected(<<batch[j], batch[i]>>) # <<>>
    /\ \E i, j \in DOMAIN batch :
          /\ SharedKeys(batch[i], batch[j]) # {}
          /\ i # j
          /\ Detected(<<batch[i], batch[j]>>) = <<>>

\* -------------------------------------- claims on snapshot and on the deltas
\* The value a snapshot() call returned is the store's current state with
\* the store's round counter, as long as nothing but snapshot() is called.
SnapshotReadsStore ==
    call.op = "snapshot" =>
        /\ call.ret.values = store.state.values
        /\ call.ret.round_number = store.round
        /\ call.before = store.state

\* A snapshot() call changes nothing in the store.
SnapshotKeepsStore == call'.op = "snapshot" => store' = store

\* C27: snapshot() has no effect on the store: state, round counter and
\* history are unchanged; two snapshot() calls with no apply or reset between
\* them return equal values, whose round number is the store's round counter.
C27_SnapshotPure ==
    /\ []SnapshotReadsStore
    /\ [][SnapshotKeepsStore]_vars

\* snapshot() has been called on a store that went through two applies and
\* differs from its construction values.
C27_Witness ==
    /\ call.op = "snapshot"
    /\ store.round = 2
    /\ Len(store.history) = 2
    /\ call.ret.round_number = 2
    /\ call.ret.values # store.initial

\* The deltas of the call without the keys that are not state fields.
KnownDeltas == [key \in DOMAIN call.deltas \cap Fields |-> call.deltas[key]]

\* C28: apply ignores keys of the deltas mapping that are not state fields:
\* the state's field set never changes and the result is that of the mapping
\* without them; a state field with no key in the mapping is treated as
\* delta 0: with noise 0 it keeps its previous value, provided that value
\* was within its bound.
C28_UnknownAndAbsentKeys ==
    /\ DOMAIN store.state.values = Fields
    /\ Applied =>
          /\ DOMAIN call.ret.values = Fields
          /\ \A key \in Fields :
                /\ call.ret.values[key] =
                      NewValue(key, call.before.values[key], KnownDeltas, call.noise)
                /\ (/\ key \notin DOMAIN call.deltas
                    /\ call.noise = Zero
                    /\ InBounds(key, call.before.values[key]))
                   => call.ret.values[key] = call.before.values[key]

\* An apply without noise whose mapping held a key that is no state field
\* and a delta for revenue only: revenue changed, cost, within its bound and
\* without a key, did not.
C28_Witness ==
    /\ Applied
    /\ call.noise = Zero
    /\ DOMAIN call.deltas \ Fields # {}
    /\ call.ret.values["revenue"] # call.before.values["revenue"]
    /\ "cost" \notin DOMAIN call.deltas
    /\ InBounds("cost", call.before.values["cost"])
    /\ call.ret.values["cost"] = call.before.values["cost"]

\* ------------------------------------------------- claims on the evaluators
\* The resolver of the run in progress has just resolved the round's batch.
JustResolved == frame # <<>> /\ frame[1].pc = "noise"

\* C29: the weight given to an evaluator when it is constructed is the base
\* negotiation weight the engine uses for that evaluator's proposals in
\* every round of a run.
C29_EvaluatorWeightUsed ==
    JustResolved =>
        \A i \in DOMAIN sims[frame[1].self].agents :
            BaseWeight(sims[frame[1].self].engine, frame[1].proposals[i].agent_name)
                = sims[frame[1].self].agents[i].weight

\* The evaluators of Simulator s as they were when constructed.
Registered(s) == [i \in DOMAIN sims[s].agents |-> AgentReset(sims[s].agents[i])]

\* C30: the orchestrator invokes exactly the evaluators supplied at
\* construction, and the four default evaluators are used only when no list
\* is supplied; a Simulator given an empty evaluator list produces an empty
\* proposal batch and the neutral consensus outcome in every round.
C30_SuppliedEvaluatorsUsed ==
    /\ \A s \in Sims :
          Registered(s) = IF sims[s].args.agents = None THEN default_agents
                          ELSE sims[s].args.agents[1]
    /\ (JustResolved /\ sims[frame[1].self].args.agents = Some(<<>>)) =>
          /\ frame[1].proposals = <<>>
          /\ frame[1].consensus = NoProposals

====
